---- MODULE Spec2Model ----
(***************************************************************************)
(* Model of the randomness statistical-analysis engine of QuantumCoinToss  *)
(* (quantum_stats.py): analyze_coin_tosses, print_analysis and a caller    *)
(* that grows a sequence of outcomes and analyses snapshots of it.         *)
(*                                                                         *)
(* Numbers.  Python floats are modelled by exact fractions <<n, d>> with   *)
(* d > 0 (compared by cross-multiplication), a NaN by an explicit flag.    *)
(* The lag-1 autocorrelation r = cov / sqrt(vx * vy) is kept as the record *)
(* [nan, num, den2] with r = num / sqrt(den2), so that r = 0, r = -1 and   *)
(* |r| < 0.1 are decided exactly on integers.                              *)
(***************************************************************************)
EXTENDS Integers, Sequences, FiniteSets, TLC

\* Longest sequence of outcomes the caller builds.
MaxLen == 5

\* The values an element of the analysed list takes: 0 and 1 are the binary
\* alphabet, 2 stands for any value outside it.
Outcomes == {0, 1, 2}

Alphabet == {0, 1}

----------------------------------------------------------------------------
(* Fractions *)

Frac(n, d) == <<n, d>>

FAdd(a, b) == <<a[1] * b[2] + b[1] * a[2], a[2] * b[2]>>

FSub(a, b) == <<a[1] * b[2] - b[1] * a[2], a[2] * b[2]>>

FMul(a, b) == <<a[1] * b[1], a[2] * b[2]>>

\* a / b for b > 0
FDiv(a, b) == <<a[1] * b[2], a[2] * b[1]>>

FNeg(a) == <<0 - a[1], a[2]>>

FAbs(a) == IF a[1] < 0 THEN <<0 - a[1], a[2]>> ELSE a

FEq(a, b) == a[1] * b[2] = b[1] * a[2]

FLt(a, b) == a[1] * b[2] < b[1] * a[2]

FLe(a, b) == a[1] * b[2] <= b[1] * a[2]

RECURSIVE SumSeq(_)
SumSeq(s) == IF s = <<>> THEN 0 ELSE s[1] + SumSeq(Tail(s))

\* len(runs) where max(runs) was meant.
MaxSeq_len(s) == Len(s)

RECURSIVE MaxSeq(_)
MaxSeq(s) ==
    IF Len(s) = 1 THEN s[1]
    ELSE LET m == MaxSeq(Tail(s)) IN IF s[1] > m THEN s[1] ELSE m

----------------------------------------------------------------------------
(* analyze_coin_tosses and the library calls it makes *)

\* list.count(v) miscounted by starting at the second element.
count_skip_first(results, v) ==
    Cardinality({i \in 2..Len(results) : results[i] = v})

\* list.count(v)
count(results, v) == Cardinality({i \in 1..Len(results) : results[i] = v})

\* The scan without line 42: the run still open at the end is never appended.
RECURSIVE run_scan_no_last(_, _, _, _)
run_scan_no_last(results, i, runs, current_run) ==
    IF i > Len(results) THEN runs
    ELSE IF results[i] = results[i - 1]
         THEN run_scan_no_last(results, i + 1, runs, current_run + 1)
         ELSE run_scan_no_last(results, i + 1, Append(runs, current_run), 1)

\* The scan with the counter reset to 0 instead of 1 when a run ends.
RECURSIVE run_scan_reset_zero(_, _, _, _)
run_scan_reset_zero(results, i, runs, current_run) ==
    IF i > Len(results) THEN Append(runs, current_run)
    ELSE IF results[i] = results[i - 1]
         THEN run_scan_reset_zero(results, i + 1, runs, current_run + 1)
         ELSE run_scan_reset_zero(results, i + 1, Append(runs, current_run), 0)

\* The single scan of lines 31-42; i is the 1-based index of results[i] in
\* the Python loop `for i in range(1, len(results))`.
RECURSIVE run_scan(_, _, _, _)
run_scan(results, i, runs, current_run) ==
    IF i > Len(results) THEN Append(runs, current_run)
    ELSE IF results[i] = results[i - 1]
         THEN run_scan(results, i + 1, runs, current_run + 1)
         ELSE run_scan(results, i + 1, Append(runs, current_run), 1)

\* Lines 31-42: runs = [], current_run = 1, the loop, the final append.
scan_runs(results) == run_scan(results, 2, <<>>, 1)

\* np.log2 of the fractions the analyzer passes to it (counts over totals),
\* in thousandths of a bit: Log2Milli[k] = round(1000 * log2(k)).
Log2Milli ==
    <<0, 1000, 1585, 2000, 2322, 2585, 2807, 3000, 3170, 3322, 3459, 3585>>

np_log2(p) == Frac(Log2Milli[p[1]] - Log2Milli[p[2]], 1000)

\* The entropy without the guard of line 46: np.log2(0) is -inf and
\* 0 * -inf is nan, written here as the fraction <<0, 0>>.
shannon_entropy_unguarded(p0, p1) ==
    IF p0[1] > 0 /\ p1[1] > 0
    THEN FSub(FMul(FNeg(p0), np_log2(p0)), FMul(p1, np_log2(p1)))
    ELSE Frac(0, 0)

\* Lines 46-49, on the unreduced fractions p0 = zeros/total, p1 = ones/total.
shannon_entropy(p0, p1) ==
    IF p0[1] > 0 /\ p1[1] > 0
    THEN FSub(FMul(FNeg(p0), np_log2(p0)), FMul(p1, np_log2(p1)))
    ELSE Frac(0, 1)

\* Survival function of the chi-squared distribution with 1 degree of
\* freedom, as a step function through its quantiles: each row is
\* <<x * 10^4, sf(x) * 10^4>>.  The value returned is sf at the largest
\* tabulated x that is <= stat, exact at the tabulated points and an upper
\* bound between them, so every comparison of the p-value with a tabulated
\* level (0.05 among them) is decided as scipy decides it.
Chi2Quantiles ==
    << <<0, 10000>>, <<158, 9000>>, <<1015, 7500>>, <<4549, 5000>>,
       <<13233, 2500>>, <<27055, 1000>>, <<38415, 500>>, <<50239, 250>>,
       <<66349, 100>>, <<78794, 50>>, <<108276, 10>> >>

chi2_sf(stat) ==
    LET reached == {i \in 1..Len(Chi2Quantiles) :
                        FLe(Frac(Chi2Quantiles[i][1], 10000), stat)}
        last == CHOOSE i \in reached : \A j \in reached : j <= i
    IN  Frac(Chi2Quantiles[last][2], 10000)

RECURSIVE FSum(_)
FSum(s) == IF s = <<>> THEN Frac(0, 1) ELSE FAdd(s[1], FSum(Tail(s)))

\* A chi-squared test that does not compare the two sums: the statistic is
\* computed from whatever counts it is given.
chisquare_unchecked(observed, expected) ==
    LET terms == [i \in 1..Len(observed) |->
                    LET d == FSub(Frac(observed[i], 1), expected[i])
                    IN  FDiv(FMul(d, d), expected[i])]
        stat == FSum(terms)
    IN  [raised |-> "none", statistic |-> stat, p_value |-> chi2_sf(stat)]

\* scipy.stats.chisquare(f_obs, f_exp) of scipy >= 1.10 (setup.py): it
\* raises ValueError when the observed and expected frequencies do not have
\* the same sum, and otherwise returns the Pearson statistic
\* sum((f_obs - f_exp)^2 / f_exp) with its p-value for len(f_obs) - 1 = 1
\* degree of freedom.
chisquare(observed, expected) ==
    LET terms == [i \in 1..Len(observed) |->
                    LET d == FSub(Frac(observed[i], 1), expected[i])
                    IN  FDiv(FMul(d, d), expected[i])]
        stat == FSum(terms)
    IN  IF ~FEq(Frac(SumSeq(observed), 1), FSum(expected))
        THEN [raised |-> "ValueError", statistic |-> Frac(0, 1), p_value |-> Frac(0, 1)]
        ELSE [raised |-> "none", statistic |-> stat, p_value |-> chi2_sf(stat)]

NaN == [nan |-> TRUE, num |-> 0, den2 |-> 1]

Number(num, den2) == [nan |-> FALSE, num |-> num, den2 |-> den2]

\* np.corrcoef(x, y)[0, 1] = cov(x, y) / sqrt(var(x) * var(y)), each scaled
\* by n^2.  A zero variance (a constant x or y, and always when n = 1) makes
\* numpy divide zero by zero: the entry is nan, with a RuntimeWarning and no
\* exception.
corrcoef(x, y) ==
    LET n == Len(x)
        Sx == SumSeq(x)
        Sy == SumSeq(y)
        Sxy == SumSeq([i \in 1..n |-> x[i] * y[i]])
        Sxx == SumSeq([i \in 1..n |-> x[i] * x[i]])
        Syy == SumSeq([i \in 1..n |-> y[i] * y[i]])
        cov == n * Sxy - Sx * Sy
        vx == n * Sxx - Sx * Sx
        vy == n * Syy - Sy * Sy
    IN  IF vx * vy = 0 THEN NaN ELSE Number(cov, vx * vy)

\* The autocorrelation without the length check of line 60.
lag1_autocorr_unguarded(results) ==
    corrcoef(SubSeq(results, 1, Len(results) - 1), Tail(results))

\* The autocorrelation of results[:-1] with itself.
lag1_autocorr_same_slice(results) ==
    IF Len(results) > 1
    THEN corrcoef(SubSeq(results, 1, Len(results) - 1),
                  SubSeq(results, 1, Len(results) - 1))
    ELSE Number(0, 1)

\* Lines 59-63.
lag1_autocorr(results) ==
    IF Len(results) > 1
    THEN corrcoef(SubSeq(results, 1, Len(results) - 1), Tail(results))
    ELSE Number(0, 1)

\* The verdict at the 1% level instead of the 5% level.
is_random_1pct(p_value) == FLt(Frac(1, 100), p_value)

\* Line 85: p_value > 0.05
is_random(p_value) == FLt(Frac(5, 100), p_value)

\* The value of the caller's variable before any report was returned to it.
NoAnalysis == [none |-> TRUE]

Raise(exc, runs) == [raised |-> exc, value |-> NoAnalysis, runs |-> runs]

\* Lines 18-90, what the function does once past the emptiness check.  The
\* outcome is [raised, value, runs]: the exception that left the function
\* ("none" for a normal return), the value returned, and the local list
\* `runs` as the function left it.
analyze_body(results) ==
    LET total == Len(results)
        zeros == count(results, 0)
        ones == count(results, 1)
    IN  IF total = 0 THEN Raise("ZeroDivisionError", <<>>)
        ELSE
        LET p0 == Frac(zeros, total)
            p1 == Frac(ones, total)
            bias == FAbs(FSub(p1, Frac(1, 2)))
            runs == scan_runs(results)
            entropy == shannon_entropy(p0, p1)
            entropy_ratio == FDiv(entropy, Frac(1, 1))
            expected == <<Frac(total, 2), Frac(total, 2)>>
            observed == <<zeros, ones>>
            chi == chisquare(observed, expected)
        IN  IF chi.raised # "none" THEN Raise(chi.raised, runs)
            ELSE
            [raised |-> "none",
             runs |-> runs,
             value |->
               [total_tosses |-> total,
                zeros |-> zeros,
                ones |-> ones,
                p0 |-> p0,
                p1 |-> p1,
                bias |-> bias,
                runs |-> [total_runs |-> Len(runs),
                          max_run |-> IF runs # <<>> THEN MaxSeq(runs) ELSE 0,
                          avg_run |-> IF runs # <<>>
                                      THEN Frac(SumSeq(runs), Len(runs))
                                      ELSE Frac(0, 1)],
                entropy |-> [value |-> entropy, ratio_to_max |-> entropy_ratio],
                chi_squared |-> [statistic |-> chi.statistic,
                                 p_value |-> chi.p_value,
                                 is_random |-> is_random(chi.p_value)],
                autocorrelation |-> lag1_autocorr(results)]]

\* The function without the emptiness check of lines 15-16.
analyze_without_empty_check(results) == analyze_body(results)

\* Lines 5-90.
analyze_coin_tosses(results) ==
    IF results = <<>>
    THEN [raised |-> "none", value |-> [error |-> "No results provided"], runs |-> <<>>]
    ELSE analyze_body(results)

----------------------------------------------------------------------------
(* print_analysis *)

\* abs(autocorrelation) < 0.1 and abs(autocorrelation) >= 0.1 as Python
\* evaluates them: every comparison with nan is False.
abs_lt_tenth(a) == ~a.nan /\ 100 * a.num * a.num < a.den2

abs_ge_tenth(a) == ~a.nan /\ 100 * a.num * a.num >= a.den2

StatisticallyRandom == "Interpretation: Results appear statistically random"

Deviation == "Interpretation: Results show some deviation from randomness"

SerialCorrelation == "Interpretation: Results show some serial correlation"

InterpretationLines == {StatisticallyRandom, Deviation, SerialCorrelation}

\* The chain with a first condition that leaves the autocorrelation out.
interpretation_ignores_autocorr(analysis) ==
    IF analysis.chi_squared.is_random
    THEN <<StatisticallyRandom>>
    ELSE IF ~analysis.chi_squared.is_random
    THEN <<Deviation>>
    ELSE IF abs_ge_tenth(analysis.autocorrelation)
    THEN <<SerialCorrelation>>
    ELSE <<>>

\* Lines 111-117: the lines the if / elif / elif chain prints.
interpretation(analysis) ==
    IF analysis.chi_squared.is_random /\ abs_lt_tenth(analysis.autocorrelation)
    THEN <<StatisticallyRandom>>
    ELSE IF ~analysis.chi_squared.is_random
    THEN <<Deviation>>
    ELSE IF abs_ge_tenth(analysis.autocorrelation)
    THEN <<SerialCorrelation>>
    ELSE <<>>

\* The prints with the autocorrelation line moved before the verdict.
ReportLines_swapped ==
    <<"==== Quantum Coin Toss Analysis ====",
      "Total tosses", "Heads (0)", "Tails (1)", "Bias from fair",
      "Run Statistics:", "Number of runs", "Longest run", "Average run length",
      "Randomness Metrics:", "Entropy", "Chi-squared",
      "Autocorrelation (lag 1)", "Statistical randomness">>

\* Lines 94-109: one entry per printed field, in the order of the prints.
ReportLines ==
    <<"==== Quantum Coin Toss Analysis ====",
      "Total tosses", "Heads (0)", "Tails (1)", "Bias from fair",
      "Run Statistics:", "Number of runs", "Longest run", "Average run length",
      "Randomness Metrics:", "Entropy", "Chi-squared",
      "Statistical randomness", "Autocorrelation (lag 1)">>

\* Lines 92-117.  The outcome is [raised, output].  Given the dict that
\* analyze_coin_tosses returns for an empty list, the first field access
\* (line 95) raises KeyError after the title line was printed.
print_analysis(analysis) ==
    IF "total_tosses" \notin DOMAIN analysis
    THEN [raised |-> "KeyError", output |-> SubSeq(ReportLines, 1, 1)]
    ELSE [raised |-> "none", output |-> ReportLines \o interpretation(analysis)]

----------------------------------------------------------------------------
(* analyze_results of advanced_qutrit_generator.py and of                  *)
(* error_mitigated_coin.py                                                 *)

\* The value of a summary before the function that prints it was called.
NoSummary == [none |-> TRUE]

\* advanced_qutrit_generator.py line 143.
qutrit_avg_bias(bias_0, bias_1, bias_2) ==
    FDiv(FAdd(FAdd(bias_0, bias_1), bias_2), Frac(3, 1))

\* advanced_qutrit_generator.py lines 152-163, the inline run scan.
RECURSIVE qutrit_run_scan(_, _, _, _)
qutrit_run_scan(results, i, run_lengths, current_run) ==
    IF i > Len(results) THEN Append(run_lengths, current_run)
    ELSE IF results[i] = results[i - 1]
         THEN qutrit_run_scan(results, i + 1, run_lengths, current_run + 1)
         ELSE qutrit_run_scan(results, i + 1, Append(run_lengths, current_run), 1)

\* advanced_qutrit_generator.py lines 120-172: the values the function
\* prints.  zeros / total on an empty list raises ZeroDivisionError (line
\* 135).
qutrit_analyze_results(results) ==
    LET zeros == count(results, 0)
        ones == count(results, 1)
        twos == count(results, 2)
        total == Len(results)
    IN  IF total = 0 THEN [raised |-> "ZeroDivisionError"]
        ELSE
        LET bias_0 == FAbs(FSub(Frac(zeros, total), Frac(1, 3)))
            bias_1 == FAbs(FSub(Frac(ones, total), Frac(1, 3)))
            bias_2 == FAbs(FSub(Frac(twos, total), Frac(1, 3)))
            avg_bias == qutrit_avg_bias(bias_0, bias_1, bias_2)
            run_lengths == qutrit_run_scan(results, 2, <<>>, 1)
            avg_run == Frac(SumSeq(run_lengths), Len(run_lengths))
        IN  [raised |-> "none",
             total |-> total, zeros |-> zeros, ones |-> ones, twos |-> twos,
             bias_0 |-> bias_0, bias_1 |-> bias_1, bias_2 |-> bias_2,
             avg_bias |-> avg_bias,
             run_lengths |-> run_lengths,
             longest_run |-> MaxSeq(run_lengths),
             avg_run |-> avg_run,
             run_deviation |-> FAbs(FSub(avg_run, Frac(3, 2)))]

\* error_mitigated_coin.py lines 240-254.
RECURSIVE calculate_runs_scan(_, _, _, _)
calculate_runs_scan(results, i, runs, current_run) ==
    IF i > Len(results) THEN Append(runs, current_run)
    ELSE IF results[i] = results[i - 1]
         THEN calculate_runs_scan(results, i + 1, runs, current_run + 1)
         ELSE calculate_runs_scan(results, i + 1, Append(runs, current_run), 1)

calculate_runs(results) == calculate_runs_scan(results, 2, <<>>, 1)

\* The bias taken on the raw count of zeros instead of on the probability.
em_bias_of_count(zeros, total) == FAbs(FSub(Frac(zeros, 1), Frac(1, 2)))

\* error_mitigated_coin.py lines 210-211: abs(prob_0 - 0.5).
em_bias(zeros, total) == FAbs(FSub(Frac(zeros, total), Frac(1, 2)))

\* error_mitigated_coin.py lines 184-238: the values the function prints.
\* Either division by an empty list's length raises ZeroDivisionError.
em_analyze_results(raw_results, mitigated_results) ==
    LET raw_zeros == count(raw_results, 0)
        raw_ones == count(raw_results, 1)
        mitigated_zeros == count(mitigated_results, 0)
        mitigated_ones == count(mitigated_results, 1)
        total_raw == Len(raw_results)
        total_mitigated == Len(mitigated_results)
    IN  IF total_raw = 0 \/ total_mitigated = 0
        THEN [raised |-> "ZeroDivisionError"]
        ELSE
        LET raw_bias == em_bias(raw_zeros, total_raw)
            mitigated_bias == em_bias(mitigated_zeros, total_mitigated)
        IN  [raised |-> "none",
             total_samples |-> total_raw,
             raw_zeros |-> raw_zeros, raw_ones |-> raw_ones,
             raw_prob_0 |-> Frac(raw_zeros, total_raw),
             raw_prob_1 |-> Frac(raw_ones, total_raw),
             raw_bias |-> raw_bias,
             mitigated_zeros |-> mitigated_zeros, mitigated_ones |-> mitigated_ones,
             mitigated_prob_0 |-> Frac(mitigated_zeros, total_mitigated),
             mitigated_prob_1 |-> Frac(mitigated_ones, total_mitigated),
             mitigated_bias |-> mitigated_bias,
             improvement_printed |-> FLt(Frac(0, 1), raw_bias),
             raw_max_run |-> MaxSeq(calculate_runs(raw_results)),
             mitigated_max_run |-> MaxSeq(calculate_runs(mitigated_results))]

\* error_mitigated_coin.py line 137: the votes taken for one mitigated bit.
VoteCount == 5

\* Lines 128-131: the raw bit is the ideal bit, flipped when hardware noise
\* is simulated and the draw fell below error_rate.  draws holds this
\* iteration's draws in order: the raw bit's first, then one per vote.
em_raw_bit(ideal_bit, use_hardware, draws) ==
    IF use_hardware /\ draws[1] THEN 1 - ideal_bit ELSE ideal_bit

\* Lines 136-142: each vote is the ideal bit, flipped when its draw fell
\* below error_rate.
em_votes(ideal_bit, draws) ==
    [k \in 1..VoteCount |-> IF draws[k + 1] THEN 1 - ideal_bit ELSE ideal_bit]

\* The vote with the comparison of line 145 turned round.
em_majority_vote_reversed(votes) ==
    IF count(votes, 1) < count(votes, 0) THEN 1 ELSE 0

\* Line 145: 1 if votes.count(1) > votes.count(0) else 0.
em_majority_vote(votes) ==
    IF count(votes, 1) > count(votes, 0) THEN 1 ELSE 0

\* Lines 135-148: the majority vote with hardware noise, the ideal bit
\* without.
em_mitigated_bit(ideal_bit, use_hardware, votes) ==
    IF use_hardware THEN em_majority_vote(votes) ELSE ideal_bit

----------------------------------------------------------------------------
(* generate_single_qutrit and QuantumVisualizer *)

\* The keys result.get_counts() can hold after one shot of two measured
\* qubits.
Measurements == {"00", "01", "10", "11"}

\* The mapping that reads the two bits as a binary number, '11' as 3.
generate_single_qutrit_binary(outcome) ==
    IF outcome = "00" THEN 0
    ELSE IF outcome = "01" THEN 1
    ELSE IF outcome = "10" THEN 2
    ELSE 3

\* advanced_qutrit_generator.py lines 48-62: the value returned for the
\* measured bit string.
generate_single_qutrit(outcome) ==
    IF outcome = "00" THEN 0
    ELSE IF outcome = "01" THEN 1
    ELSE IF outcome = "10" THEN 2
    ELSE 0

\* quantum_visualizer.py line 15: the default of the constructor's
\* max_samples.
DefaultMaxSamples == 100

\* quantum_visualizer.py lines 37-43, the buffer after add_result(result);
\* the append and the eviction happen under the lock.
add_result(buffer, max, result) ==
    LET appended == Append(buffer, result)
    IN  IF Len(appended) > max THEN Tail(appended) ELSE appended

\* The eviction left out: the buffer only grows.
add_result_pop_never(buffer, max) == buffer

\* quantum_visualizer.py lines 42-43, the second half of add_result:
\* if len(self.results) > self.max_samples: self.results.pop(0).
add_result_pop(buffer, max) ==
    IF Len(buffer) > max THEN Tail(buffer) ELSE buffer

\* A lock that every thread may enter at any time.
lock_acquirable_always(l) == TRUE

\* threading.Lock of line 27: `with self.lock:` proceeds when no thread
\* holds the lock.
lock_acquirable(l) == l = "free"

\* quantum_visualizer.py line 119, data = list(self.results): a new list
\* with the elements the buffer has now.
list_copy(buffer) == [alias |-> FALSE, value |-> buffer]

\* The elements of the list that the callback's variable data names.
list_of(d, buffer) == IF d.alias THEN buffer ELSE d.value

\* collections.deque(iterable, maxlen): the last maxlen elements.
deque(iterable, maxlen) ==
    IF Len(iterable) > maxlen
    THEN SubSeq(iterable, Len(iterable) - maxlen + 1, Len(iterable))
    ELSE iterable

\* quantum_visualizer.py line 191: the number of outcomes of the scatter.
VizWindow == 50

\* quantum_visualizer.py line 191: data[-50:] if len(data) > 50 else data.
viz_recent_data(data) ==
    IF Len(data) > VizWindow
    THEN SubSeq(data, Len(data) - VizWindow + 1, Len(data))
    ELSE data

\* quantum_visualizer.py lines 239-248, the loop of _update_run_lengths.
RECURSIVE update_run_lengths_scan(_, _, _, _)
update_run_lengths_scan(data, i, run_lengths, current_run) ==
    IF i > Len(data) THEN Append(run_lengths, current_run)
    ELSE IF data[i] = data[i - 1]
         THEN update_run_lengths_scan(data, i + 1, run_lengths, current_run + 1)
         ELSE update_run_lengths_scan(data, i + 1, Append(run_lengths, current_run), 1)

\* The deque built one entry too short.
update_run_lengths_short(old, data, max) ==
    IF data = <<>> THEN old
    ELSE deque(update_run_lengths_scan(data, 2, <<>>, 1), max - 1)

\* quantum_visualizer.py lines 234-254: self.run_lengths after
\* _update_run_lengths(data), old being its value before.
update_run_lengths(old, data, max) ==
    IF data = <<>> THEN old
    ELSE deque(update_run_lengths_scan(data, 2, <<>>, 1), max)

NoFigure == [none |-> TRUE]

\* quantum_visualizer.py lines 116-232: what _update_plots draws from the
\* copy of the buffer it took under the lock.
update_plots_figure(old, data) ==
    IF data = <<>> THEN old
    ELSE [data |-> data, recent_data |-> viz_recent_data(data)]

----------------------------------------------------------------------------
(* plot_results *)

\* quantum_stats.py line 155: the number of outcomes of the scatter.
PlotWindow == 50

\* The first 50 outcomes where the last 50 were meant.
plot_recent_data_head(results) ==
    IF Len(results) > PlotWindow THEN SubSeq(results, 1, PlotWindow) ELSE results

\* quantum_stats.py line 155: results[-50:] if len(results) > 50 else results.
plot_recent_data(results) ==
    IF Len(results) > PlotWindow
    THEN SubSeq(results, Len(results) - PlotWindow + 1, Len(results))
    ELSE results

\* quantum_stats.py lines 166-175, the loop of the histogram's run lengths.
RECURSIVE plot_run_scan(_, _, _, _)
plot_run_scan(results, i, runs, current_run) ==
    IF i > Len(results) THEN Append(runs, current_run)
    ELSE IF results[i] = results[i - 1]
         THEN plot_run_scan(results, i + 1, runs, current_run + 1)
         ELSE plot_run_scan(results, i + 1, Append(runs, current_run), 1)

\* plot_results without its check of lines 121-123: an empty list is drawn
\* and saved like any other.
plot_results_unguarded(results) ==
    [figure |-> [recent_data |-> plot_recent_data(results), runs |-> <<>>],
     saved  |-> {"quantum_toss_analysis.png"},
     output |-> <<"Analysis plot saved as 'quantum_toss_analysis.png'">>]

\* quantum_stats.py lines 119-194: the figure drawn, the files written and
\* the lines printed by plot_results(results).
plot_results(results) ==
    IF results = <<>>
    THEN [figure |-> NoFigure, saved |-> {}, output |-> <<"No results to plot">>]
    ELSE [figure |-> [recent_data |-> plot_recent_data(results),
                      runs        |-> plot_run_scan(results, 2, <<>>, 1)],
          saved  |-> {"quantum_toss_analysis.png"},
          output |-> <<"Analysis plot saved as 'quantum_toss_analysis.png'">>]

----------------------------------------------------------------------------
(* The caller *)

VARIABLES
    results,           \* the caller's list of outcomes
    analysis,          \* the value the last call of analyze_coin_tosses returned
    raised,            \* the exception that call raised, or "none"
    runs,              \* the local list `runs` of that call when it ended
    snapshot,          \* the list as it was when that call was made
    earlier,           \* the value returned by the call before it
    earlier_snapshot,  \* the list as it was at the call before it
    output,            \* the lines printed by the last call of print_analysis
    print_raised,      \* the exception that call raised, or "none"
    printed,           \* the argument of that call
    op,                \* the last operation performed
    qutrit_summary,    \* what the last call of the qutrit analyze_results printed
    em_summary,        \* what the last call of the error-mitigated one printed
    pc,                \* where run_experiment is: "idle" when none is running
    num_samples,       \* run_experiment's num_samples, or num_tosses: the outcomes to produce
    visualize,         \* run_experiment's visualize argument
    max_samples,       \* the visualizer's max_samples
    viz_results,       \* the visualizer's buffer self.results
    measured,          \* the bit strings measured so far, one per outcome
    events,            \* what run_experiment did in its finally block, in order
    batch_size,        \* run_experiment's batch_size
    tosses_completed,  \* run_experiment's counter of the outcomes produced
    iterations,        \* the number of iterations the while loop has made, modulo 2
    figure,            \* what the last plot_results drew: the scatter's and the histogram's data
    saved,             \* the files written by plot_results
    plot_output,       \* the lines plot_results printed
    viz_figure,        \* what the last _update_plots drew, with the copy of the buffer it drew from
    run_lengths,       \* the visualizer's self.run_lengths
    calculated_runs,   \* what the last call of calculate_runs returned
    lock,              \* the visualizer's self.lock: "free" or the method holding it
    add_pc,            \* where the thread calling add_result is
    result,            \* add_result's argument
    added,             \* the values add_result has appended so far, in order
    upd_pc,            \* where the animation callback _update_plots is
    callback_data,     \* the callback's local variable data
    use_hardware,      \* the error-mitigated run_experiment's use_hardware argument
    mitigated_results, \* its list mitigated_results (its raw_results is results)
    toss_i,            \* its loop variable i: the iterations begun so far
    ideal_bit,         \* its local ideal_bit
    raw_bit,           \* its local raw_bit
    mitigated_bit,     \* its local mitigated_bit
    votes,             \* its local list votes
    draws,             \* whether each np.random.random() of the iteration fell below error_rate
    mitigated_viz_results,  \* the buffer of its mitigated_visualizer
    rings_pc,          \* where create_rings_backend or its caller is: "idle" when none runs
    caller,            \* who called create_rings_backend: "initialize" or "direct"
    environ,           \* os.environ: the token and the URL set there, or "None"
    token,             \* create_rings_backend's token
    url,               \* create_rings_backend's url
    backends,          \* what qr_client.backends() returned
    rings_exception,   \* the exception raised in create_rings_backend's try block, or "none"
    propagated,        \* the exception that left create_rings_backend, or "none"
    backend,           \* what create_rings_backend returned, "unset" before
    initialized,       \* what initialize_quantum_backend returned, "unset" before
    rings_output       \* the lines the two functions printed

vars == <<results, analysis, raised, runs, snapshot, earlier, earlier_snapshot,
          output, print_raised, printed, op, qutrit_summary, em_summary,
          pc, num_samples, visualize, max_samples, viz_results, measured, events,
          batch_size, tosses_completed, iterations,
          figure, saved, plot_output, viz_figure, run_lengths,
          calculated_runs, lock, add_pc, result, added, upd_pc, callback_data,
          use_hardware, mitigated_results, toss_i, ideal_bit, raw_bit,
          mitigated_bit, votes, draws, mitigated_viz_results,
          rings_pc, caller, environ, token, url, backends, rings_exception,
          propagated, backend, initialized, rings_output>>

\* The state of a call of create_rings_backend or initialize_quantum_backend.
ringsvars == <<rings_pc, caller, environ, token, url, backends, rings_exception,
               propagated, backend, initialized, rings_output>>

\* The state of a run of the error-mitigated run_experiment.
emvars == <<use_hardware, mitigated_results, toss_i, ideal_bit, raw_bit,
            mitigated_bit, votes, draws, mitigated_viz_results>>

\* The state of the helpers, which the operations above leave alone.
sidevars == <<calculated_runs, lock, add_pc, result, added, upd_pc, callback_data,
              emvars, ringsvars>>

\* The two threads of a visualizer: the caller of add_result and the
\* animation callback.
threadvars == <<lock, add_pc, result, added, upd_pc, callback_data>>

\* The state of a run of run_experiment.
expvars == <<pc, num_samples, visualize, max_samples, viz_results, measured, events,
             batch_size, tosses_completed, iterations>>

\* The batching of the run_experiment of quantum_rings_toss.py.
batchvars == <<batch_size, tosses_completed, iterations>>

\* The variables the analyzer, the printer and their caller leave alone.
others == <<qutrit_summary, em_summary, expvars, figure, saved, plot_output,
            viz_figure, run_lengths, sidevars>>

\* What plot_results and the visualizer's _update_plots leave behind.
plotvars == <<figure, saved, plot_output, viz_figure, run_lengths>>

\* No helper was called yet; calculate_runs returns no empty list.
InitSide ==
    /\ calculated_runs = <<>>
    /\ lock = "free"
    /\ add_pc = "idle"
    /\ result = 0
    /\ added = <<>>
    /\ upd_pc = "idle"
    /\ callback_data = list_copy(<<>>)

\* No error-mitigated run_experiment is running.
InitNoMitigation ==
    /\ use_hardware = FALSE
    /\ mitigated_results = <<>>
    /\ toss_i = 0
    /\ ideal_bit = 0
    /\ raw_bit = 0
    /\ mitigated_bit = 0
    /\ votes = <<>>
    /\ draws = <<>>
    /\ mitigated_viz_results = <<>>

\* No back end was asked for.
InitNoRings ==
    /\ rings_pc = "idle"
    /\ caller = "none"
    /\ environ = [QUANTUM_RINGS_TOKEN |-> "None", QUANTUM_RINGS_URL |-> "None"]
    /\ token = "None"
    /\ url = "None"
    /\ backends = <<>>
    /\ rings_exception = "none"
    /\ propagated = "none"
    /\ backend = "unset"
    /\ initialized = "unset"
    /\ rings_output = <<>>

\* No call of the analyzer or the printer was made yet.
InitCalls ==
    /\ InitSide
    /\ analysis = NoAnalysis
    /\ raised = "none"
    /\ runs = <<>>
    /\ snapshot = <<>>
    /\ earlier = NoAnalysis
    /\ earlier_snapshot = <<>>
    /\ output = <<>>
    /\ print_raised = "none"
    /\ printed = NoAnalysis
    /\ op = "init"
    /\ qutrit_summary = NoSummary
    /\ em_summary = NoSummary
    /\ figure = NoFigure
    /\ saved = {}
    /\ plot_output = <<>>
    /\ viz_figure = NoFigure
    /\ run_lengths = <<>>

\* No run_experiment is running and no visualizer exists.
InitNoExperiment ==
    /\ pc = "idle"
    /\ num_samples = 0
    /\ visualize = FALSE
    /\ max_samples = DefaultMaxSamples
    /\ viz_results = <<>>
    /\ measured = <<>>
    /\ events = <<>>
    /\ batch_size = 1
    /\ InitNoMitigation
    /\ InitNoRings
    /\ tosses_completed = 0
    /\ iterations = 0

Init ==
    /\ results = <<>>
    /\ InitCalls
    /\ InitNoExperiment

\* The caller appends one outcome to its list.
Toss(b) ==
    /\ Len(results) < MaxLen
    /\ results' = Append(results, b)
    /\ op' = "toss"
    /\ UNCHANGED <<analysis, raised, runs, snapshot, earlier, earlier_snapshot,
                   output, print_raised, printed, others>>

\* A call that fills and returns one dict shared by all calls: the report
\* the caller kept from the call before changes with it.
AnalyzeCall_shared_dict ==
    LET r == analyze_coin_tosses(results)
    IN  /\ analysis' = r.value
        /\ raised' = r.raised
        /\ runs' = r.runs
        /\ snapshot' = results
        /\ earlier' = (IF analysis = NoAnalysis THEN analysis ELSE r.value)
        /\ earlier_snapshot' = snapshot
        /\ results' = results
        /\ op' = "analyze"
        /\ UNCHANGED <<output, print_raised, printed, others>>

\* analysis = analyze_coin_tosses(results): the function reads the list and
\* builds a new dict; the dict returned by the call before stays with the
\* caller as it was.
AnalyzeCall ==
    LET r == analyze_coin_tosses(results)
    IN  /\ analysis' = r.value
        /\ raised' = r.raised
        /\ runs' = r.runs
        /\ snapshot' = results
        /\ earlier' = analysis
        /\ earlier_snapshot' = snapshot
        /\ results' = results
        /\ op' = "analyze"
        /\ UNCHANGED <<output, print_raised, printed, others>>

\* print_analysis(analysis), on a value that analyze_coin_tosses returned.
PrintCall ==
    /\ analysis # NoAnalysis
    /\ LET r == print_analysis(analysis)
       IN  /\ output' = r.output
           /\ print_raised' = r.raised
    /\ printed' = analysis
    /\ op' = "print"
    /\ UNCHANGED <<results, analysis, raised, runs, snapshot, earlier,
                   earlier_snapshot, others>>

Next ==
    \/ \E b \in Outcomes : Toss(b)
    \/ AnalyzeCall
    \/ PrintCall

Spec == Init /\ [][Next]_vars

----------------------------------------------------------------------------
(* The analyzer and the printer applied to whole binary sequences *)

\* Longest binary sequence handed to the analyzer in one piece.
MaxLongLen == 10

BinarySeqs(n) == UNION {[1..k -> Alphabet] : k \in 0..n}

InitLong ==
    /\ results \in BinarySeqs(MaxLongLen)
    /\ InitCalls
    /\ InitNoExperiment

NextLong ==
    \/ AnalyzeCall
    \/ PrintCall

SpecLong == InitLong /\ [][NextLong]_vars

----------------------------------------------------------------------------
(* The three bias computations applied to the same list *)

callvars == <<analysis, raised, runs, snapshot, earlier, earlier_snapshot,
              output, print_raised, printed>>

\* analyze_results(results) of advanced_qutrit_generator.py.
QutritAnalyzeCall ==
    /\ qutrit_summary' = qutrit_analyze_results(results)
    /\ op' = "qutrit_analyze"
    /\ UNCHANGED <<results, callvars, em_summary, expvars, plotvars, sidevars>>

\* analyze_results(raw_results, mitigated_results) of error_mitigated_coin.py
\* with the list as raw_results and a binary list of the same length as
\* mitigated_results.
MitigatedAnalyzeCall(mitigated) ==
    /\ em_summary' = em_analyze_results(results, mitigated)
    /\ op' = "em_analyze"
    /\ UNCHANGED <<results, callvars, qutrit_summary, expvars, plotvars, sidevars>>

\* Longest list handed to the three functions.
MaxBiasLen == 4

InitBias ==
    /\ results \in UNION {[1..k -> Outcomes] : k \in 0..MaxBiasLen}
    /\ InitCalls
    /\ InitNoExperiment

\* runs = calculate_runs(results), error_mitigated_coin.py lines 240-254.
CalculateRunsCall ==
    /\ calculated_runs' = calculate_runs(results)
    /\ op' = "calculate_runs"
    /\ UNCHANGED <<results, callvars, qutrit_summary, em_summary, expvars, plotvars,
                   threadvars, emvars, ringsvars>>

NextBias ==
    \/ AnalyzeCall
    \/ CalculateRunsCall
    \/ QutritAnalyzeCall
    \/ \E m \in [1..Len(results) -> Alphabet] : MitigatedAnalyzeCall(m)

SpecBias == InitBias /\ [][NextBias]_vars

----------------------------------------------------------------------------
(* run_experiment of advanced_qutrit_generator.py, lines 64-118 *)

\* Largest num_samples of a modelled run.
MaxSamplesRun == 4

\* The max_samples of a visualizer built small enough to evict.
SmallMaxSamples == 2

\* Lines 74-86: the visualizer is created when visualize is set, results is
\* empty, the loop is about to start.
InitQutrit ==
    /\ results = <<>>
    /\ InitCalls
    /\ pc = "loop"
    /\ num_samples \in 0..MaxSamplesRun
    /\ visualize \in BOOLEAN
    /\ max_samples \in {SmallMaxSamples, DefaultMaxSamples}
    /\ visualize = FALSE => max_samples = DefaultMaxSamples
    /\ viz_results = <<>>
    /\ measured = <<>>
    /\ events = <<>>
    /\ batch_size = 1
    /\ InitNoMitigation
    /\ InitNoRings
    /\ tosses_completed = 0
    /\ iterations = 0

\* Lines 88-103, one iteration of the loop: the circuit measures m, the
\* value it maps to is appended to results and handed to the visualizer.
QutritSample(m) ==
    /\ pc = "loop"
    /\ Len(results) < num_samples
    /\ LET outcome == generate_single_qutrit(m)
       IN  /\ results' = Append(results, outcome)
           /\ viz_results' = IF visualize
                              THEN add_result(viz_results, max_samples, outcome)
                              ELSE viz_results
    /\ measured' = Append(measured, m)
    /\ op' = "sample"
    /\ UNCHANGED <<callvars, qutrit_summary, em_summary, pc, num_samples,
                   visualize, max_samples, events, plotvars, batchvars, sidevars>>

\* Line 88: range(num_samples) is exhausted.
QutritLoopExit ==
    /\ pc = "loop"
    /\ Len(results) >= num_samples
    /\ pc' = "finally"
    /\ op' = "loop_exit"
    /\ UNCHANGED <<results, callvars, qutrit_summary, em_summary, num_samples,
                   visualize, max_samples, viz_results, measured, events, plotvars, batchvars, sidevars>>

\* Lines 105-106: KeyboardInterrupt between two iterations.
QutritInterrupt ==
    /\ pc = "loop"
    /\ pc' = "finally"
    /\ op' = "interrupt"
    /\ events' = Append(events, "interrupted")
    /\ UNCHANGED <<results, callvars, qutrit_summary, em_summary, num_samples,
                   visualize, max_samples, viz_results, measured, plotvars, batchvars, sidevars>>

\* Lines 108-118: the statistics when there are results, then the
\* visualization saved and stopped when there is a visualizer.
QutritFinally ==
    /\ pc = "finally"
    /\ pc' = "done"
    /\ op' = "finally"
    /\ qutrit_summary' = IF results # <<>> THEN qutrit_analyze_results(results)
                         ELSE qutrit_summary
    /\ events' = events
                    \o (IF results # <<>> THEN <<"analyze">> ELSE <<>>)
                    \o (IF visualize THEN <<"save", "stop">> ELSE <<>>)
    /\ UNCHANGED <<results, callvars, em_summary, num_samples, visualize,
                   max_samples, viz_results, measured, plotvars, batchvars, sidevars>>

NextQutrit ==
    \/ \E m \in Measurements : QutritSample(m)
    \/ QutritLoopExit
    \/ QutritInterrupt
    \/ QutritFinally

SpecQutrit == InitQutrit /\ [][NextQutrit]_vars

----------------------------------------------------------------------------
(* run_experiment of quantum_rings_toss.py, lines 12-129 *)

\* Largest num_tosses of a modelled run.
MaxTosses == 4

\* Largest batch_size of a modelled run.
MaxBatchSize == 2

\* The batch sizes of a modelled run: --batch-size is read with type=int
\* and not checked (quantum_rings_toss.py lines 139-140), so zero and a
\* negative one are among them.
BatchSizes == -1..MaxBatchSize

\* The number of outcomes batched_quantum_coin_toss(shots) returns when it
\* returns: one per shot (quantum_rings_coin.py lines 74-85); the counts of
\* a run of no shots, or of a negative number of them, are empty.
outcomes_returned(shots) == IF shots > 0 THEN shots ELSE 0

\* min(batch_size, num_tosses - tosses_completed), line 56.
current_batch_size ==
    IF batch_size < num_samples - tosses_completed
    THEN batch_size
    ELSE num_samples - tosses_completed

\* Lines 38-49: the visualizer is created when visualize is set, results is
\* empty, tosses_completed is 0.
InitExperiment ==
    /\ results = <<>>
    /\ InitCalls
    /\ pc = "loop"
    /\ num_samples \in 0..MaxTosses
    /\ batch_size \in BatchSizes
    /\ InitNoMitigation
    /\ InitNoRings
    /\ tosses_completed = 0
    /\ iterations = 0
    /\ visualize \in BOOLEAN
    /\ max_samples \in {SmallMaxSamples, DefaultMaxSamples}
    /\ visualize = FALSE => max_samples = DefaultMaxSamples
    /\ viz_results = <<>>
    /\ measured = <<>>
    /\ events = <<>>

\* The progress line printed whatever batch_size is.
progress_check_raises_never(size) == FALSE

\* Line 87, tosses_completed % batch_size: ZeroDivisionError when batch_size
\* is 0.
progress_check_raises(size) == size = 0

\* Lines 55-90, one iteration of the loop: a batch of current_batch_size
\* outcomes extends results, the batch is handed to the visualizer as one
\* value, the counter advances, the progress is printed.
ExperimentBatch(batch_results) ==
    /\ pc = "loop"
    /\ tosses_completed < num_samples
    /\ Len(batch_results) = outcomes_returned(current_batch_size)
    /\ results' = results \o batch_results
    /\ viz_results' = IF visualize
                      THEN add_result(viz_results, max_samples, batch_results)
                      ELSE viz_results
    /\ tosses_completed' = tosses_completed + Len(batch_results)
    /\ iterations' = (iterations + 1) % 2
    /\ pc' = IF progress_check_raises(batch_size) THEN "finally" ELSE "loop"
    /\ events' = IF progress_check_raises(batch_size)
                 THEN Append(events, "ZeroDivisionError")
                 ELSE events
    /\ op' = "batch"
    /\ UNCHANGED <<callvars, qutrit_summary, em_summary, num_samples,
                   visualize, max_samples, measured, batch_size, plotvars, sidevars>>

\* Lines 58-73: the back end refuses to run a circuit with no shots, or with
\* a negative number of them; the exception is not a KeyboardInterrupt and
\* leaves run_experiment through the finally block.
ExperimentBatchRaises ==
    /\ pc = "loop"
    /\ tosses_completed < num_samples
    /\ current_batch_size <= 0
    /\ pc' = "finally"
    /\ events' = Append(events, "backend error")
    /\ op' = "batch_raises"
    /\ UNCHANGED <<results, callvars, qutrit_summary, em_summary, num_samples, visualize,
                   max_samples, viz_results, measured, batchvars, plotvars, sidevars>>

\* Lines 75 and 92-93: KeyboardInterrupt after results.extend and before the
\* visualizer and the counter are updated.
ExperimentBatchInterrupted(batch_results) ==
    /\ pc = "loop"
    /\ tosses_completed < num_samples
    /\ Len(batch_results) = outcomes_returned(current_batch_size)
    /\ results' = results \o batch_results
    /\ pc' = "finally"
    /\ events' = Append(events, "interrupted")
    /\ op' = "batch_interrupted"
    /\ UNCHANGED <<callvars, qutrit_summary, em_summary, num_samples, visualize,
                   max_samples, viz_results, measured, batchvars, plotvars, sidevars>>

\* Line 55: the loop condition fails.
ExperimentLoopExit ==
    /\ pc = "loop"
    /\ tosses_completed >= num_samples
    /\ pc' = "finally"
    /\ op' = "loop_exit"
    /\ UNCHANGED <<results, callvars, qutrit_summary, em_summary, num_samples,
                   visualize, max_samples, viz_results, measured, events,
                   batchvars, plotvars, sidevars>>

\* Lines 92-93: KeyboardInterrupt between two batches or before the first.
ExperimentInterrupt ==
    /\ pc = "loop"
    /\ pc' = "finally"
    /\ events' = Append(events, "interrupted")
    /\ op' = "interrupt"
    /\ UNCHANGED <<results, callvars, qutrit_summary, em_summary, num_samples,
                   visualize, max_samples, viz_results, measured, batchvars, plotvars, sidevars>>

\* The visualizer saved and the plot made, the visualizer left running.
finally_visualizer_calls_without_stop == <<"save", "plot">>

\* Lines 119-129, what the finally block does with a visualizer, in order:
\* save_visualization, plot_results, stop_visualization.
finally_visualizer_calls == <<"save", "plot", "stop">>

\* The finally block with the test of line 104 left out: the analysis and
\* the report are made of whatever results holds.
finally_analyzes_always(r) == TRUE

\* Line 104, `if results:`.
finally_analyzes(r) == r # <<>>

\* Lines 95-129, the finally block: the analysis and its report when there
\* are results; with a visualizer its picture is saved, plot_results is
\* called and the visualizer is stopped.  An exception of the analysis or
\* of the report leaves the block at once.
ExperimentFinally ==
    /\ pc = "finally"
    /\ pc' = "done"
    /\ op' = "finally"
    /\ LET analyzes == finally_analyzes(results)
           a        == analyze_coin_tosses(results)
           prints   == analyzes /\ a.raised = "none"
           p        == print_analysis(a.value)
           plots    == /\ visualize
                       /\ analyzes => (a.raised = "none" /\ p.raised = "none")
           plotted  == plot_results(results)
       IN  /\ analysis' = IF analyzes THEN a.value ELSE analysis
           /\ raised' = IF analyzes THEN a.raised ELSE raised
           /\ runs' = IF analyzes THEN a.runs ELSE runs
           /\ snapshot' = IF analyzes THEN results ELSE snapshot
           /\ earlier' = IF analyzes THEN analysis ELSE earlier
           /\ earlier_snapshot' = IF analyzes THEN snapshot ELSE earlier_snapshot
           /\ output' = IF prints THEN p.output ELSE output
           /\ print_raised' = IF prints THEN p.raised ELSE print_raised
           /\ printed' = IF prints THEN a.value ELSE printed
           /\ figure' = IF plots THEN plotted.figure ELSE figure
           /\ saved' = IF plots THEN saved \cup plotted.saved ELSE saved
           /\ plot_output' = IF plots THEN plotted.output ELSE plot_output
           /\ events' = events
                          \o (IF analyzes THEN <<"analyze">> ELSE <<>>)
                          \o (IF prints THEN <<"print">> ELSE <<>>)
                          \o (IF plots THEN finally_visualizer_calls ELSE <<>>)
    /\ UNCHANGED <<results, qutrit_summary, em_summary, num_samples, visualize,
                   max_samples, viz_results, measured, batchvars, viz_figure,
                   run_lengths, sidevars>>

NextExperiment ==
    \/ \E batch_results \in BinarySeqs(MaxBatchSize) :
          \/ ExperimentBatch(batch_results)
          \/ ExperimentBatchInterrupted(batch_results)
    \/ ExperimentBatchRaises
    \/ ExperimentLoopExit
    \/ ExperimentInterrupt
    \/ ExperimentFinally

SpecExperiment == InitExperiment /\ [][NextExperiment]_vars

\* The steps the loop takes by itself: the interpreter goes on with the next
\* batch or leaves the loop; nothing makes the user interrupt or the back
\* end refuse.
ExperimentRuns ==
    \/ \E batch_results \in BinarySeqs(MaxBatchSize) : ExperimentBatch(batch_results)
    \/ ExperimentLoopExit

SpecExperimentFair == SpecExperiment /\ WF_vars(ExperimentRuns)

----------------------------------------------------------------------------
(* A QuantumVisualizer with a thread calling add_result and the animation
   callback _update_plots running beside it *)

\* Number of add_result calls of a modelled run.
MaxAdded == 4

\* quantum_visualizer.py lines 15-35: a visualizer just constructed.  A
\* negative max_samples makes collections.deque raise in the constructor.
InitVisualizer ==
    /\ results = <<>>
    /\ InitCalls
    /\ pc = "idle"
    /\ num_samples = 0
    /\ visualize = TRUE
    /\ max_samples \in 0..SmallMaxSamples
    /\ viz_results = <<>>
    /\ measured = <<>>
    /\ events = <<>>
    /\ batch_size = 1
    /\ InitNoMitigation
    /\ InitNoRings
    /\ tosses_completed = 0
    /\ iterations = 0

\* What neither thread of the visualizer touches.
outside == <<results, callvars, qutrit_summary, em_summary, pc, num_samples,
             visualize, max_samples, measured, events, batchvars, figure, saved,
             plot_output, calculated_runs, emvars, ringsvars>>

\* Line 39: add_result(x) enters `with self.lock`.
AddResultEnter(x) ==
    /\ add_pc = "idle"
    /\ Len(added) < MaxAdded
    /\ lock_acquirable(lock)
    /\ lock' = "add_result"
    /\ result' = x
    /\ add_pc' = "locked"
    /\ op' = "add_result_enter"
    /\ UNCHANGED <<outside, viz_results, added, upd_pc, callback_data, viz_figure, run_lengths>>

\* Line 40: self.results.append(result).
AddResultAppend ==
    /\ add_pc = "locked"
    /\ viz_results' = Append(viz_results, result)
    /\ added' = Append(added, result)
    /\ add_pc' = "appended"
    /\ op' = "add_result_append"
    /\ UNCHANGED <<outside, lock, result, upd_pc, callback_data, viz_figure, run_lengths>>

\* Lines 42-43 and the end of the with block: the eviction, then the lock
\* is released.
AddResultPop ==
    /\ add_pc = "appended"
    /\ viz_results' = add_result_pop(viz_results, max_samples)
    /\ lock' = "free"
    /\ add_pc' = "idle"
    /\ op' = "add_result_pop"
    /\ UNCHANGED <<outside, result, added, upd_pc, callback_data, viz_figure, run_lengths>>

\* Line 118: the callback enters `with self.lock`.
UpdatePlotsEnter ==
    /\ upd_pc = "idle"
    /\ lock_acquirable(lock)
    /\ lock' = "update_plots"
    /\ upd_pc' = "locked"
    /\ op' = "update_plots_enter"
    /\ UNCHANGED <<outside, viz_results, add_pc, result, added, callback_data, viz_figure,
                   run_lengths>>

\* Line 119 and the end of the with block: the copy, then the lock is
\* released.
UpdatePlotsCopy ==
    /\ upd_pc = "locked"
    /\ callback_data' = list_copy(viz_results)
    /\ lock' = "free"
    /\ upd_pc' = "copied"
    /\ op' = "update_plots_copy"
    /\ UNCHANGED <<outside, viz_results, add_pc, result, added, viz_figure,
                   run_lengths>>

\* Lines 121-232: the callback draws from data, outside the lock.
UpdatePlotsDraw ==
    /\ upd_pc = "copied"
    /\ LET d == list_of(callback_data, viz_results)
       IN  /\ viz_figure' = update_plots_figure(viz_figure, d)
           /\ run_lengths' = update_run_lengths(run_lengths, d, max_samples)
    /\ upd_pc' = "idle"
    /\ op' = "update_plots_draw"
    /\ UNCHANGED <<outside, viz_results, lock, add_pc, result, added, callback_data>>

NextVisualizer ==
    \/ \E x \in Alphabet : AddResultEnter(x)
    \/ AddResultAppend
    \/ AddResultPop
    \/ UpdatePlotsEnter
    \/ UpdatePlotsCopy
    \/ UpdatePlotsDraw

SpecVisualizer == InitVisualizer /\ [][NextVisualizer]_vars

----------------------------------------------------------------------------
(* plot_results and the visualizer's _update_plots on long sequences *)

\* Longest sequence plotted.
MaxPlotLen == 53

\* Number of leading outcomes of a run that are free; the later ones
\* repeat them, which keeps the runs few and their windows distinct.
SeedLen == 3

\* quantum_coin_experiment.py lines 43-52: the visualizer is created,
\* results is empty, the loop is about to start.
InitPlot ==
    /\ results = <<>>
    /\ InitCalls
    /\ pc = "loop"
    /\ num_samples = MaxPlotLen
    /\ visualize = TRUE
    /\ max_samples \in {SmallMaxSamples, DefaultMaxSamples}
    /\ viz_results = <<>>
    /\ measured = <<>>
    /\ events = <<>>
    /\ batch_size = 1
    /\ InitNoMitigation
    /\ InitNoRings
    /\ tosses_completed = 0
    /\ iterations = 0

\* quantum_coin_experiment.py lines 75-78: one outcome is appended to
\* results and handed to the visualizer.
PlotToss(outcome) ==
    /\ pc = "loop"
    /\ Len(results) < num_samples
    /\ Len(results) >= SeedLen => outcome = results[Len(results) + 1 - SeedLen]
    /\ results' = Append(results, outcome)
    /\ viz_results' = add_result(viz_results, max_samples, outcome)
    /\ op' = "toss"
    /\ UNCHANGED <<callvars, qutrit_summary, em_summary, pc, num_samples,
                   visualize, max_samples, measured, events, plotvars, batchvars, sidevars>>

\* quantum_coin_experiment.py lines 94-97: the loop ends, by exhaustion or
\* by KeyboardInterrupt.
PlotLoopEnd ==
    /\ pc = "loop"
    /\ pc' = "finally"
    /\ op' = "loop_end"
    /\ UNCHANGED <<results, callvars, qutrit_summary, em_summary, num_samples,
                   visualize, max_samples, viz_results, measured, events, plotvars, batchvars, sidevars>>

\* plot_results(results), quantum_stats.py lines 119-194.
PlotResultsCall ==
    /\ LET plotted == plot_results(results)
       IN  /\ figure' = plotted.figure
           /\ saved' = saved \cup plotted.saved
           /\ plot_output' = plotted.output
    /\ op' = "plot_results"
    /\ UNCHANGED <<results, callvars, qutrit_summary, em_summary, expvars,
                   viz_figure, run_lengths, sidevars>>

\* One frame of the animation: _update_plots, quantum_visualizer.py lines
\* 116-232, with the _update_run_lengths it calls.
UpdatePlots ==
    /\ LET data == viz_results
       IN  /\ viz_figure' = update_plots_figure(viz_figure, data)
           /\ run_lengths' = update_run_lengths(run_lengths, data, max_samples)
    /\ op' = "update_plots"
    /\ UNCHANGED <<results, callvars, qutrit_summary, em_summary, expvars,
                   figure, saved, plot_output, sidevars>>

\* quantum_coin_experiment.py line 119: plot_results is called in the
\* finally block, once the loop is over.
NextPlot ==
    \/ \E outcome \in Alphabet : PlotToss(outcome)
    \/ PlotLoopEnd
    \/ pc = "finally" /\ PlotResultsCall
    \/ UpdatePlots

SpecPlot == InitPlot /\ [][NextPlot]_vars

----------------------------------------------------------------------------
(* run_experiment of error_mitigated_coin.py, lines 82-182 *)

\* Most tosses asked of the error-mitigated run_experiment.
MaxEmTosses == 2

\* The draws of one iteration: none without hardware noise (the `and` of
\* line 129 does not draw, lines 136-142 are skipped), else one for the raw
\* bit and one per vote.
Draws(hardware) ==
    IF hardware THEN [1..(VoteCount + 1) -> BOOLEAN] ELSE {<<>>}

\* Lines 87-109: the back end, the two visualizers (each a QuantumVisualizer
\* with the default max_samples) and the two empty lists.
InitMitigated ==
    /\ results = <<>>
    /\ InitCalls
    /\ pc = "loop"
    /\ num_samples \in 0..MaxEmTosses
    /\ visualize \in BOOLEAN
    /\ max_samples = DefaultMaxSamples
    /\ viz_results = <<>>
    /\ measured = <<>>
    /\ events = <<>>
    /\ batch_size = 1
    /\ tosses_completed = 0
    /\ iterations = 0
    /\ use_hardware \in BOOLEAN
    /\ mitigated_results = <<>>
    /\ toss_i = 0
    /\ ideal_bit = 0
    /\ raw_bit = 0
    /\ mitigated_bit = 0
    /\ votes = <<>>
    /\ draws = <<>>
    /\ mitigated_viz_results = <<>>
    /\ InitNoRings

\* What the error-mitigated run_experiment never touches.
em_outside == <<callvars, qutrit_summary, num_samples, visualize, max_samples,
                measured, batchvars, plotvars, calculated_runs, threadvars,
                use_hardware, ringsvars>>

\* Lines 114-148: the next iteration measures the ideal bit and computes the
\* raw and the mitigated bit from it.
MitigatedToss(ideal, d) ==
    /\ pc = "loop"
    /\ toss_i < num_samples
    /\ toss_i' = toss_i + 1
    /\ ideal_bit' = ideal
    /\ draws' = d
    /\ raw_bit' = em_raw_bit(ideal, use_hardware, d)
    /\ votes' = IF use_hardware THEN em_votes(ideal, d) ELSE votes
    /\ mitigated_bit' = em_mitigated_bit(ideal, use_hardware, votes')
    /\ pc' = "computed"
    /\ op' = "em_toss"
    /\ UNCHANGED <<em_outside, results, em_summary, viz_results, events,
                   mitigated_results, mitigated_viz_results>>

\* Lines 151-153: raw_results.append(raw_bit) and the raw visualizer's
\* add_result.
MitigatedStoreRaw ==
    /\ pc = "computed"
    /\ results' = Append(results, raw_bit)
    /\ viz_results' = IF visualize THEN add_result(viz_results, max_samples, raw_bit)
                      ELSE viz_results
    /\ pc' = "raw_stored"
    /\ op' = "em_store_raw"
    /\ UNCHANGED <<em_outside, em_summary, events, mitigated_results, toss_i, ideal_bit,
                   raw_bit, mitigated_bit, votes, draws, mitigated_viz_results>>

\* Lines 155-165: mitigated_results.append(mitigated_bit), the mitigated
\* visualizer's add_result, the progress line and the delay.
MitigatedStoreMitigated ==
    /\ pc = "raw_stored"
    /\ mitigated_results' = Append(mitigated_results, mitigated_bit)
    /\ mitigated_viz_results' =
          IF visualize THEN add_result(mitigated_viz_results, max_samples, mitigated_bit)
          ELSE mitigated_viz_results
    /\ pc' = "loop"
    /\ op' = "em_store_mitigated"
    /\ UNCHANGED <<em_outside, results, em_summary, viz_results, events, toss_i, ideal_bit,
                   raw_bit, mitigated_bit, votes, draws>>

\* The for loop of line 114 is exhausted.
MitigatedLoopExit ==
    /\ pc = "loop"
    /\ toss_i = num_samples
    /\ pc' = "finally"
    /\ op' = "em_loop_exit"
    /\ UNCHANGED <<em_outside, results, em_summary, viz_results, events, emvars>>

\* Lines 167-168: a KeyboardInterrupt arrives somewhere in the try block:
\* between two iterations, before the bits are stored, or between the two
\* appends.
MitigatedInterrupt ==
    /\ pc \in {"loop", "computed", "raw_stored"}
    /\ events' = Append(events, "interrupted")
    /\ pc' = "finally"
    /\ op' = "em_interrupt"
    /\ UNCHANGED <<em_outside, results, em_summary, viz_results, emvars>>

\* Lines 170-182, the finally block: analyze_results when both lists are
\* non-empty, then both visualizers are saved.
MitigatedFinally ==
    /\ pc = "finally"
    /\ LET analyzes == results # <<>> /\ mitigated_results # <<>>
           summary == em_analyze_results(results, mitigated_results)
           saves == visualize /\ (analyzes => summary.raised = "none")
       IN  /\ em_summary' = IF analyzes THEN summary ELSE em_summary
           /\ events' = events \o (IF analyzes THEN <<"analyze">> ELSE <<>>)
                               \o (IF saves THEN <<"save", "save">> ELSE <<>>)
    /\ pc' = "done"
    /\ op' = "em_finally"
    /\ UNCHANGED <<em_outside, results, viz_results, emvars>>

NextMitigated ==
    \/ \E ideal \in Alphabet : \E d \in Draws(use_hardware) : MitigatedToss(ideal, d)
    \/ MitigatedStoreRaw
    \/ MitigatedStoreMitigated
    \/ MitigatedLoopExit
    \/ MitigatedInterrupt
    \/ MitigatedFinally

SpecMitigated == InitMitigated /\ [][NextMitigated]_vars

----------------------------------------------------------------------------
(* quantum_rings_provider.py: create_rings_backend, lines 5-53, and
   initialize_quantum_backend, lines 55-78 *)

\* Most back ends qr_client.backends() lists.
MaxBackends == 2

\* The exceptions the try block of create_rings_backend can meet that derive
\* from Exception, and those that derive from BaseException only.
Exceptions == {"ImportError", "ValueError", "RuntimeError", "ConnectionError", "TypeError"}
BaseExceptionsOnly == {"KeyboardInterrupt", "SystemExit"}

\* Line 46: except ImportError.
caught_by_except_ImportError(e) == e = "ImportError"

\* Line 50: except Exception.
caught_by_except_Exception(e) == e \in Exceptions

\* A handler that catches what `except Exception` catches.
caught_by_except_Exception_only(e) == caught_by_except_Exception(e)

\* Line 75: the bare except catches every exception.
caught_by_bare_except(e) == e \in Exceptions \cup BaseExceptionsOnly

\* Values of os.environ entries and of the two arguments.
TokenValues == {"None", "token"}
UrlValues == {"None", "https://rings.example"}

\* A call of initialize_quantum_backend (which passes no argument, line 65)
\* or a direct call of create_rings_backend, in any environment.
InitRings ==
    /\ results = <<>>
    /\ InitCalls
    /\ pc = "idle"
    /\ num_samples = 0
    /\ visualize = FALSE
    /\ max_samples = DefaultMaxSamples
    /\ viz_results = <<>>
    /\ measured = <<>>
    /\ events = <<>>
    /\ batch_size = 1
    /\ tosses_completed = 0
    /\ iterations = 0
    /\ InitNoMitigation
    /\ rings_pc = "import"
    /\ caller \in {"initialize", "direct"}
    /\ environ \in [QUANTUM_RINGS_TOKEN : TokenValues, QUANTUM_RINGS_URL : UrlValues]
    /\ token \in TokenValues
    /\ url \in UrlValues
    /\ caller = "initialize" => token = "None" /\ url = "None"
    /\ backends = <<>>
    /\ rings_exception = "none"
    /\ propagated = "none"
    /\ backend = "unset"
    /\ initialized = "unset"
    /\ rings_output = <<>>

\* What the two functions never touch.
rings_outside == <<results, callvars, qutrit_summary, em_summary, expvars, plotvars,
                   calculated_runs, threadvars, emvars, caller, environ>>

\* Lines 18-19: the two imports, which may fail or be interrupted.
RingsImport(raises) ==
    /\ rings_pc = "import"
    /\ rings_exception' = raises
    /\ rings_pc' = IF raises = "none" THEN "token" ELSE "except"
    /\ op' = "rings_import"
    /\ UNCHANGED <<rings_outside, token, url, backends, propagated, backend, initialized,
                   rings_output>>

\* Lines 22-25: the token from the environment when none was passed;
\* ValueError when there is none.
RingsToken ==
    /\ rings_pc = "token"
    /\ token' = IF token = "None" THEN environ.QUANTUM_RINGS_TOKEN ELSE token
    /\ rings_exception' = IF token' = "None" THEN "ValueError" ELSE "none"
    /\ rings_pc' = IF token' = "None" THEN "except" ELSE "url"
    /\ op' = "rings_token"
    /\ UNCHANGED <<rings_outside, url, backends, propagated, backend, initialized,
                   rings_output>>

\* Lines 28-29: the URL from the environment, or the default one.
RingsUrl ==
    /\ rings_pc = "url"
    /\ url' = IF url # "None" THEN url
              ELSE IF environ.QUANTUM_RINGS_URL # "None" THEN environ.QUANTUM_RINGS_URL
              ELSE "https://api.quantumrings.com"
    /\ rings_pc' = "client"
    /\ op' = "rings_url"
    /\ UNCHANGED <<rings_outside, token, backends, rings_exception, propagated, backend,
                   initialized, rings_output>>

\* Line 32: QuantumRings(token=token, url=url), which may fail, be
\* interrupted or exit.
RingsClient(raises) ==
    /\ rings_pc = "client"
    /\ rings_exception' = raises
    /\ rings_pc' = IF raises = "none" THEN "backends" ELSE "except"
    /\ op' = "rings_client"
    /\ UNCHANGED <<rings_outside, token, url, backends, propagated, backend, initialized,
                   rings_output>>

\* Lines 35-37: qr_client.backends() returns bs, or fails, or is
\* interrupted; an empty list raises RuntimeError.
RingsBackends(bs, raises) ==
    /\ rings_pc = "backends"
    /\ backends' = IF raises = "none" THEN bs ELSE backends
    /\ rings_exception' = IF raises # "none" THEN raises
                          ELSE IF bs = <<>> THEN "RuntimeError" ELSE "none"
    /\ rings_pc' = IF rings_exception' = "none" THEN "select" ELSE "except"
    /\ op' = "rings_backends"
    /\ UNCHANGED <<rings_outside, token, url, propagated, backend, initialized, rings_output>>

\* Lines 41-44: the first back end is selected, its name printed (the call
\* backend.name() may fail) and it is returned.
RingsSelect(raises) ==
    /\ rings_pc = "select"
    /\ rings_exception' = raises
    /\ IF raises = "none"
       THEN /\ backend' = backends[1]
            /\ rings_output' = Append(rings_output, "Connected to Quantum Rings backend")
            /\ rings_pc' = "returned"
       ELSE /\ UNCHANGED <<backend, rings_output>>
            /\ rings_pc' = "except"
    /\ op' = "rings_select"
    /\ UNCHANGED <<rings_outside, token, url, backends, propagated, initialized>>

\* Lines 46-53: the two handlers return the Aer simulator; an exception
\* neither catches leaves the function.
RingsExcept ==
    /\ rings_pc = "except"
    /\ IF caught_by_except_ImportError(rings_exception)
       THEN /\ rings_output' = rings_output \o <<"Error importing Quantum Rings",
                                                  "Using Qiskit Aer simulator as fallback">>
            /\ backend' = "AerSimulator"
            /\ UNCHANGED propagated
       ELSE IF caught_by_except_Exception(rings_exception)
       THEN /\ rings_output' = rings_output \o <<"Error connecting to Quantum Rings",
                                                  "Using Qiskit Aer simulator as fallback">>
            /\ backend' = "AerSimulator"
            /\ UNCHANGED propagated
       ELSE /\ propagated' = rings_exception
            /\ UNCHANGED <<backend, rings_output>>
    /\ rings_pc' = "returned"
    /\ op' = "rings_except"
    /\ UNCHANGED <<rings_outside, token, url, backends, rings_exception, initialized>>

\* Lines 64-78: initialize_quantum_backend after its call of
\* create_rings_backend: a new simulator when the call raised something the
\* bare except catches or returned an AerSimulator, else the back end it
\* returned.
InitializeBackend ==
    /\ rings_pc = "returned"
    /\ caller = "initialize"
    /\ IF propagated # "none"
       THEN IF caught_by_bare_except(propagated)
            THEN /\ initialized' = "AerSimulator"
                 /\ rings_output' = Append(rings_output,
                        "Connected to simulated Quantum Rings backend (fallback)")
                 /\ propagated' = "none"
            ELSE UNCHANGED <<initialized, rings_output, propagated>>
       ELSE IF backend = "AerSimulator"
       THEN /\ initialized' = "AerSimulator"
            /\ rings_output' = Append(rings_output,
                   "Connected to simulated Quantum Rings backend")
            /\ UNCHANGED propagated
       ELSE /\ initialized' = backend
            /\ rings_output' = Append(rings_output, "Connected to real Quantum Rings backend")
            /\ UNCHANGED propagated
    /\ rings_pc' = "done"
    /\ op' = "initialize_quantum_backend"
    /\ UNCHANGED <<rings_outside, token, url, backends, rings_exception, backend>>

\* The lists qr_client.backends() can return.
BackendLists == UNION {[1..k -> {"ring_0", "ring_1"}] : k \in 0..MaxBackends}

NextRings ==
    \/ \E raises \in {"none", "ImportError", "KeyboardInterrupt"} : RingsImport(raises)
    \/ RingsToken
    \/ RingsUrl
    \/ \E raises \in {"none", "ConnectionError", "KeyboardInterrupt", "SystemExit"} :
          RingsClient(raises)
    \/ \E bs \in BackendLists :
          \E raises \in {"none", "ConnectionError", "KeyboardInterrupt"} :
             RingsBackends(bs, raises)
    \/ \E raises \in {"none", "TypeError"} : RingsSelect(raises)
    \/ RingsExcept
    \/ InitializeBackend

SpecRings == InitRings /\ [][NextRings]_vars

----------------------------------------------------------------------------
(* Properties *)

\* analyze_coin_tosses has been called: it returned a value or raised.
Called == analysis # NoAnalysis \/ raised # "none"

IsReport(a) == "total_tosses" \in DOMAIN a

Binary(s) == \A i \in 1..Len(s) : s[i] \in Alphabet

HasOutside(s) == \E i \in 1..Len(s) : s[i] \notin Alphabet

NoAdjacentEqual(s) == \A i \in 2..Len(s) : s[i] # s[i - 1]

IsInterpretation(line) == line \in InterpretationLines

\* C1 as the spec states it: analysing a zero-length sequence raises
\* EmptyInputError to the caller and returns no report.
C1_EmptyRaisesEmptyInputError ==
    (Called /\ snapshot = <<>>) =>
        (raised = "EmptyInputError" /\ analysis = NoAnalysis)

\* C1 amended: analysing a zero-length sequence raises nothing; it returns a
\* dict whose only key is "error", so no field of a report (counts,
\* probabilities, runs, chi-squared) is returned.
C1_EmptyReturnsErrorDict ==
    (Called /\ snapshot = <<>>) =>
        (raised = "none" /\ DOMAIN analysis = {"error"} /\ runs = <<>>)

C1_Witness == op = "analyze" /\ Called /\ snapshot = <<>>

C3_CountsAndProbabilities ==
    (Called /\ snapshot # <<>> /\ Binary(snapshot)) =>
        /\ raised = "none"
        /\ IsReport(analysis)
        /\ analysis.zeros + analysis.ones = analysis.total_tosses
        /\ analysis.total_tosses = Len(snapshot)
        /\ FEq(analysis.p0, Frac(analysis.zeros, analysis.total_tosses))
        /\ FEq(analysis.p1, Frac(analysis.ones, analysis.total_tosses))
        /\ FEq(FAdd(analysis.p0, analysis.p1), Frac(1, 1))

C3_Witness ==
    /\ op = "analyze"
    /\ IsReport(analysis)
    /\ analysis.zeros >= 2
    /\ analysis.ones >= 2

\* C4: for every sequence the analysis accepts, the run lengths built by the
\* scan sum to the sequence length, and there are at most as many runs as
\* elements, exactly as many iff no two adjacent elements are equal.
C4_RunLengths ==
    IsReport(analysis) =>
        /\ SumSeq(runs) = Len(snapshot)
        /\ Len(runs) <= Len(snapshot)
        /\ (Len(runs) = Len(snapshot)) <=> NoAdjacentEqual(snapshot)
        /\ analysis.runs.total_runs = Len(runs)

C4_Witness ==
    /\ op = "analyze"
    /\ IsReport(analysis)
    /\ Len(runs) >= 3
    /\ Len(runs) < Len(snapshot)

C7_SingleElement ==
    (Called /\ Len(snapshot) = 1 /\ Binary(snapshot)) =>
        /\ raised = "none"
        /\ IsReport(analysis)
        /\ analysis.runs.total_runs = 1
        /\ analysis.runs.max_run = 1
        /\ FEq(analysis.runs.avg_run, Frac(1, 1))
        /\ ~analysis.autocorrelation.nan
        /\ analysis.autocorrelation.num = 0

C7_Witness == op = "analyze" /\ snapshot = <<1>> /\ IsReport(analysis)

C9_ExactlyOneInterpretation ==
    IsReport(printed) => Len(SelectSeq(output, IsInterpretation)) = 1

\* C10: the chi-squared statistic of a report is the Pearson sum with
\* expected count total/2 per symbol, equal to (zeros - ones)^2 / total, and
\* is_random holds iff the p-value is > 0.05, that is iff the statistic is
\* below the 5% critical value 3.8415.
C10_ChiSquared ==
    IsReport(analysis) =>
        LET c == analysis.chi_squared
            z == analysis.zeros
            o == analysis.ones
            expected == Frac(analysis.total_tosses, 2)
            dz == FSub(Frac(z, 1), expected)
            do == FSub(Frac(o, 1), expected)
        IN  /\ FEq(c.statistic,
                   FAdd(FDiv(FMul(dz, dz), expected), FDiv(FMul(do, do), expected)))
            /\ FEq(c.statistic, Frac((z - o) * (z - o), analysis.total_tosses))
            /\ c.is_random <=> FLt(Frac(5, 100), c.p_value)
            /\ c.is_random <=> FLt(c.statistic, Frac(38415, 10000))

C10_Witness ==
    /\ op = "analyze"
    /\ IsReport(analysis)
    /\ ~analysis.chi_squared.is_random

\* The maximal blocks of equal adjacent elements of s, by their first index.
BlockStarts(s) == {i \in 1..Len(s) : i = 1 \/ s[i] # s[i - 1]}

BlockLength(s, i) ==
    LET later == {j \in BlockStarts(s) : j > i}
    IN  (IF later = {} THEN Len(s) + 1
         ELSE CHOOSE j \in later : \A k \in later : j <= k) - i

ScenarioA == <<0, 0, 0, 1, 1, 0, 0, 0, 0, 1>>

Alternating(s) == NoAdjacentEqual(s)

Constant(s) == \A i \in 1..Len(s) : s[i] = s[1]

\* C11: for every non-empty binary sequence the entropy and its ratio are
\* numbers with 0 <= ratio <= 1; the entropy is exactly 0 when zeros = 0 or
\* ones = 0; the ratio is 1 only when zeros = ones.
C11_EntropyBounds ==
    IsReport(analysis) =>
        LET e == analysis.entropy
        IN  /\ e.value[2] > 0
            /\ e.ratio_to_max[2] > 0
            /\ FLe(Frac(0, 1), e.ratio_to_max)
            /\ FLe(e.ratio_to_max, Frac(1, 1))
            /\ (analysis.zeros = 0 \/ analysis.ones = 0) => e.value = Frac(0, 1)
            /\ FEq(e.ratio_to_max, Frac(1, 1)) => analysis.zeros = analysis.ones
            /\ (analysis.zeros = analysis.ones) => FEq(e.ratio_to_max, Frac(1, 1))

C11_Witness ==
    /\ op = "analyze"
    /\ IsReport(analysis)
    /\ analysis.zeros = 0
    /\ analysis.ones >= 3

\* C12: the run statistics of a report are those of the maximal blocks of
\* equal elements: total_runs is the number of blocks, max_run the longest
\* block, avg_run = len / total_runs, the last block included; the
\* sequence [0,0,0,1,1,0,0,0,0,1] gives runs [3,2,4,1], 4, 4 and 2.5.
C12_RunStatistics ==
    IsReport(analysis) =>
        LET starts == BlockStarts(snapshot)
            r == analysis.runs
        IN  /\ Len(runs) = Cardinality(starts)
            /\ \A i \in starts :
                    runs[Cardinality({j \in starts : j <= i})] = BlockLength(snapshot, i)
            /\ r.total_runs = Cardinality(starts)
            /\ \A i \in starts : BlockLength(snapshot, i) <= r.max_run
            /\ \E i \in starts : BlockLength(snapshot, i) = r.max_run
            /\ FEq(r.avg_run, Frac(Len(snapshot), r.total_runs))
            /\ (snapshot = ScenarioA) =>
                    /\ runs = <<3, 2, 4, 1>>
                    /\ r.total_runs = 4
                    /\ r.max_run = 4
                    /\ FEq(r.avg_run, Frac(5, 2))

C12_Witness == op = "analyze" /\ IsReport(analysis) /\ snapshot = ScenarioA

\* C14: for every strictly alternating binary sequence of length n >= 3 the
\* report has total_runs = n, every run of length 1, max_run = 1,
\* avg_run = 1 and a lag-1 autocorrelation equal to -1.
C14_Alternating ==
    (Called /\ Len(snapshot) >= 3 /\ Binary(snapshot) /\ Alternating(snapshot)) =>
        /\ IsReport(analysis)
        /\ analysis.runs.total_runs = Len(snapshot)
        /\ \A i \in 1..Len(runs) : runs[i] = 1
        /\ analysis.runs.max_run = 1
        /\ FEq(analysis.runs.avg_run, Frac(1, 1))
        /\ ~analysis.autocorrelation.nan
        /\ analysis.autocorrelation.num < 0
        /\ analysis.autocorrelation.num * analysis.autocorrelation.num
               = analysis.autocorrelation.den2

C14_Witness ==
    /\ op = "analyze"
    /\ IsReport(analysis)
    /\ snapshot = <<0, 1, 0, 1, 0, 1, 0, 1>>

\* C15: for every constant binary sequence of length n >= 1 one count is 0
\* and the other n, the probability of the symbol present is 1, the bias is
\* 0.5, the entropy 0, total_runs 1 and max_run n; for n = 5 the chi-squared
\* statistic is 5 and the verdict is "not random".
C15_Constant ==
    (Called /\ Len(snapshot) >= 1 /\ Binary(snapshot) /\ Constant(snapshot)) =>
        LET n == Len(snapshot)
            present == IF snapshot[1] = 0 THEN analysis.zeros ELSE analysis.ones
            absent == IF snapshot[1] = 0 THEN analysis.ones ELSE analysis.zeros
            p_present == IF snapshot[1] = 0 THEN analysis.p0 ELSE analysis.p1
        IN  /\ IsReport(analysis)
            /\ present = n
            /\ absent = 0
            /\ FEq(p_present, Frac(1, 1))
            /\ FEq(analysis.bias, Frac(1, 2))
            /\ analysis.entropy.value = Frac(0, 1)
            /\ analysis.runs.total_runs = 1
            /\ analysis.runs.max_run = n
            /\ (n = 5) =>
                    /\ FEq(analysis.chi_squared.statistic, Frac(5, 1))
                    /\ ~analysis.chi_squared.is_random

C15_Witness == op = "analyze" /\ IsReport(analysis) /\ snapshot = <<1, 1, 1, 1, 1>>

\* The fields of the text report in the order the spec gives.
FieldOrder ==
    <<"Total tosses", "Heads (0)", "Tails (1)", "Bias from fair",
      "Number of runs", "Longest run", "Average run length",
      "Entropy", "Chi-squared", "Statistical randomness",
      "Autocorrelation (lag 1)">>

IsField(line) == \E i \in 1..Len(FieldOrder) : FieldOrder[i] = line

\* C16: for every report print_analysis prints the fields once each in the
\* fixed order total count, counts with probabilities, bias, run
\* statistics, entropy, chi-squared, verdict, autocorrelation; an
\* interpretation line comes after all of them, as the last line.
C16_FieldOrder ==
    IsReport(printed) =>
        /\ print_raised = "none"
        /\ SelectSeq(output, IsField) = FieldOrder
        /\ \A i \in 1..Len(output) :
               IsInterpretation(output[i]) => i = Len(output)
        /\ \A i \in 1..Len(output) :
               IsField(output[i]) =>
                   ~IsInterpretation(output[Len(output)]) \/ i < Len(output)

C16_Witness ==
    /\ op = "print"
    /\ IsReport(printed)
    /\ output[Len(output)] = Deviation

IsSummary(x) == "raised" \in DOMAIN x /\ x.raised = "none"

Third == Frac(1, 3)

C20_QutritAlphabet ==
    /\ Len(results) = Len(measured)
    /\ \A i \in 1..Len(results) :
          /\ results[i] = generate_single_qutrit(measured[i])
          /\ results[i] \in {0, 1, 2}
    /\ (pc = "done" /\ results # <<>>) =>
          /\ IsSummary(qutrit_summary)
          /\ qutrit_summary.total = Len(results)
          /\ qutrit_summary.zeros + qutrit_summary.ones + qutrit_summary.twos
                = qutrit_summary.total

C20_Witness ==
    /\ pc = "done"
    /\ IsSummary(qutrit_summary)
    /\ Measurements \subseteq {measured[i] : i \in 1..Len(measured)}

Drawn(f) == f # NoFigure

\* The last min(window, Len(s)) elements of s, in order.
LastOf(s, window) ==
    LET k == IF Len(s) < window THEN Len(s) ELSE window
    IN  [i \in 1..k |-> s[Len(s) - k + i]]

\* C17: the recent-window scatter of plot_results and of the visualizer
\* shows the last min(50, len) outcomes of the sequence in their order: the
\* whole sequence up to 50 elements, its final 50 beyond.
C17_RecentWindow ==
    /\ Drawn(figure) =>
          /\ figure.recent_data = LastOf(results, 50)
          /\ Len(results) <= 50 => figure.recent_data = results
    /\ Drawn(viz_figure) =>
          /\ viz_figure.recent_data = LastOf(viz_figure.data, 50)
          /\ Len(viz_figure.data) <= 50 => viz_figure.recent_data = viz_figure.data

C17_Witness ==
    /\ Drawn(figure)
    /\ Drawn(viz_figure)
    /\ Len(results) > 50
    /\ Len(viz_figure.data) > 50
    /\ figure.recent_data # SubSeq(results, 1, 50)

\* C19: on the same snapshot the run lengths of the histogram of
\* plot_results and those of the visualizer's _update_run_lengths are the
\* analyzer's run lengths; the visualizer's bounded deque drops none, so
\* its entries add up to the length of the snapshot.
C19_SameRunProfile ==
    /\ Drawn(figure) => figure.runs = scan_runs(results)
    /\ Drawn(viz_figure) =>
          /\ run_lengths = scan_runs(viz_figure.data)
          /\ SumSeq(run_lengths) = Len(viz_figure.data)

C19_Witness ==
    /\ Drawn(figure)
    /\ Drawn(viz_figure)
    /\ Len(run_lengths) = max_samples
    /\ Len(results) > max_samples
    /\ Len(figure.runs) > 1

Happened(e) == \E i \in 1..Len(events) : events[i] = e

\* C18: run_experiment calls analyze_coin_tosses and print_analysis only
\* on a non-empty results, whichever way the loop was left (completion,
\* num_tosses = 0, interrupt before the first batch), and plot_results on an
\* empty results returns without a figure and without a file.
C18_EmptyNeverAnalyzed ==
    /\ Happened("analyze") => (snapshot # <<>> /\ snapshot = results)
    /\ Happened("print") => (Happened("analyze") /\ IsReport(printed))
    /\ (pc = "done" /\ results = <<>>) =>
          /\ ~Happened("analyze") /\ ~Happened("print")
          /\ analysis = NoAnalysis /\ printed = NoAnalysis /\ output = <<>>
          /\ raised = "none" /\ print_raised = "none"
    /\ (Happened("plot") /\ results = <<>>) =>
          /\ figure = NoFigure
          /\ saved = {}
          /\ plot_output = <<"No results to plot">>
    /\ (pc = "done" /\ results # <<>>) => (Happened("analyze") /\ Happened("print"))

C18_Witness ==
    /\ pc = "done"
    /\ results = <<>>
    /\ num_samples > 0
    /\ Happened("interrupted")
    /\ Happened("plot")

\* C21: for every binary sequence of length >= 1 the autocorrelation of the
\* report is a defined number between -1 and 1, also when the first n-1 or
\* the last n-1 elements are all equal.
C21_AutocorrelationDefined ==
    (IsReport(analysis) /\ Binary(snapshot)) =>
        /\ ~analysis.autocorrelation.nan
        /\ analysis.autocorrelation.num * analysis.autocorrelation.num
             <= analysis.autocorrelation.den2

\* C22: for every input list, the empty one included, calculate_runs (and
\* the inline scan of the qutrit analyze_results) returns a profile whose
\* entries add up to the length of the input and which has one entry per
\* maximal block of equal values.
C22_RunProfileInvariant ==
    /\ op = "calculate_runs" =>
          /\ SumSeq(calculated_runs) = Len(results)
          /\ Len(calculated_runs) = Cardinality(BlockStarts(results))
    /\ IsSummary(qutrit_summary) =>
          /\ SumSeq(qutrit_summary.run_lengths) = Len(results)
          /\ Len(qutrit_summary.run_lengths) = Cardinality(BlockStarts(results))

\* C23: after any sequence of add_result calls the buffer has at most
\* max_samples elements and holds the most recent min(n, max_samples) added
\* values in insertion order; a call evicts at most the one oldest element.
C23_BoundedBuffer ==
    /\ [](add_pc = "idle" =>
            /\ Len(viz_results) <= max_samples
            /\ viz_results = LastOf(added, max_samples))
    /\ [][add_pc = "appended" => viz_results' \in {viz_results, Tail(viz_results)}]_vars

C23_Witness ==
    /\ add_pc = "idle"
    /\ max_samples > 0
    /\ Len(added) > max_samples + 1
    /\ viz_results # SubSeq(added, 1, Len(viz_results))

\* The buffer as it is after the first k of the add_result calls.
BufferAfter(k) == LastOf(SubSeq(added, 1, k), max_samples)

\* C24: with add_result running beside the callback, every snapshot the
\* callback takes is the buffer as it was between two complete add_result
\* calls, with at most max_samples elements, never the state after the
\* append and before the eviction; add_result calls made after it do not
\* change it.
C24_AtomicSnapshot ==
    /\ [](upd_pc = "copied" =>
            LET d == list_of(callback_data, viz_results)
            IN  /\ Len(d) <= max_samples
                /\ \E k \in 0..Len(added) : d = BufferAfter(k))
    /\ [][(upd_pc = "copied" /\ upd_pc' = "copied") =>
            list_of(callback_data, viz_results)' = list_of(callback_data, viz_results)]_vars

C24_Witness ==
    /\ upd_pc = "copied"
    /\ add_pc = "appended"
    /\ Len(viz_results) > max_samples
    /\ Len(callback_data.value) = max_samples
    /\ max_samples > 0
    /\ callback_data.value # BufferAfter(Len(added))

\* C25: the visualizer receives the outcomes appended to results one by
\* one, one add_result per outcome, so that after each batch its buffer has
\* the last min(len(results), max_samples) elements of results: as many
\* elements as that, each an outcome.
C25_OneAddResultPerOutcome ==
    (visualize /\ pc = "loop") =>
        Len(viz_results) = (IF Len(results) < max_samples THEN Len(results)
                            ELSE max_samples)

Uninterrupted == events = <<>>

\* C26: for every num_tosses >= 0 and every batch_size the command line
\* accepts the batching loop terminates; each batch brings the
\* min(batch_size, remaining) outcomes it requests, tosses_completed equals
\* len(results) at each test of the loop, and an uninterrupted run ends with
\* len(results) = num_tosses.
C26_BatchingTerminates ==
    /\ [](pc = "loop" => tosses_completed = Len(results))
    /\ []((pc = "finally" /\ Uninterrupted) => Len(results) = num_samples)
    /\ [][(pc = "loop" /\ pc' = "loop" /\ ~UNCHANGED iterations
                /\ current_batch_size >= 0) =>
            Len(results') = Len(results) + current_batch_size]_vars
    /\ <>(pc # "loop")

\* The place of the first e in events; 0 when e did not happen.
Place(e) ==
    IF Happened(e) THEN CHOOSE i \in 1..Len(events) :
                            events[i] = e /\ \A j \in 1..(i - 1) : events[j] # e
    ELSE 0

\* C27: however run_experiment with a visualizer leaves its loop (completion
\* or KeyboardInterrupt at any point of it), the results collected so far
\* are analyzed if there are any, then the visualization is saved, then the
\* visualizer is stopped: the save comes before the stop, the stop always
\* comes, and no outcome collected before the interrupt is dropped.
C27_FinallyOrder ==
    /\ []((pc = "done" /\ visualize) =>
            /\ Happened("save") /\ Happened("stop")
            /\ Place("save") < Place("stop")
            /\ results # <<>> =>
                  /\ Happened("analyze")
                  /\ Place("analyze") < Place("save")
                  /\ snapshot = results
                  /\ analysis.total_tosses = Len(results)
            /\ results = <<>> => ~Happened("analyze"))
    /\ [][Len(results') >= Len(results)
            /\ SubSeq(results', 1, Len(results)) = results]_vars

C27_Witness ==
    /\ pc = "done"
    /\ visualize
    /\ Happened("interrupted")
    /\ results # <<>>
    /\ Len(results) < num_samples
    /\ Len(results) > tosses_completed
    /\ Happened("stop")

\* The votes of this iteration whose draw flipped them.
FlippedVotes == Cardinality({k \in 1..VoteCount : draws[k + 1]})

\* C28: in the error-mitigated experiment, without hardware noise the raw,
\* the mitigated and the ideal bit of a toss are equal; with hardware noise
\* the mitigated bit is the strict majority of 5 votes (no tie exists), so it
\* differs from the ideal bit exactly when at least 3 votes were flipped,
\* and the raw bit differs exactly when its one flip occurred.
C28_MajorityOfFive ==
    pc \in {"computed", "raw_stored"} =>
        /\ ~use_hardware => raw_bit = ideal_bit /\ mitigated_bit = ideal_bit
        /\ use_hardware =>
              /\ Len(votes) = 5
              /\ count(votes, 1) # count(votes, 0)
              /\ count(votes, mitigated_bit) >= 3
              /\ mitigated_bit # ideal_bit <=> FlippedVotes >= 3
              /\ raw_bit # ideal_bit <=> draws[1]
        /\ pc = "raw_stored" => results[Len(results)] = raw_bit

C28_Witness ==
    /\ pc = "raw_stored"
    /\ use_hardware
    /\ FlippedVotes = 3
    /\ mitigated_bit # ideal_bit
    /\ raw_bit = ideal_bit
    /\ Len(mitigated_results) = 1
    /\ mitigated_results[1] = ideal_bit

\* C29: whenever the error-mitigated run_experiment calls analyze_results,
\* both lists are non-empty and equally long, one raw and one mitigated bit
\* per completed toss, also when a KeyboardInterrupt arrived inside the loop
\* body; the one "Total samples" figure describes both lists and no division
\* by zero occurs.
C29_EqualLengthsAnalyzed ==
    (pc = "done" /\ Happened("analyze")) =>
        /\ results # <<>>
        /\ mitigated_results # <<>>
        /\ Len(results) = Len(mitigated_results)
        /\ em_summary.raised = "none"
        /\ em_summary.total_samples = Len(mitigated_results)

\* create_rings_backend has ended, by a return or by an exception.
CreateEnded == rings_pc \in {"returned", "done"}

\* The connection succeeded: nothing was raised and the back end returned
\* is one the service listed.
Connected ==
    /\ rings_exception = "none"
    /\ backends # <<>>
    /\ backend = backends[1]

\* initialize_quantum_backend reported a real back end.
ReportedReal ==
    \E k \in 1..Len(rings_output) :
        rings_output[k] = "Connected to real Quantum Rings backend"

\* What initialize_quantum_backend guarantees once it has ended: a back end
\* is returned, nothing is raised, and a real one is reported only after a
\* connection that succeeded.
InitializeUsable ==
    rings_pc = "done" =>
        /\ initialized # "unset"
        /\ propagated = "none"
        /\ ReportedReal => Connected /\ initialized = backend
        /\ ~Connected => initialized = "AerSimulator"

\* C30 as stated: create_rings_backend never propagates an exception (after
\* a failed import, a missing token, an empty list of back ends or any
\* connection error it returns the Aer simulator), so
\* initialize_quantum_backend always returns a usable back end, never
\* raises, and reports a real one only when the connection succeeded.
C30_NeverPropagates ==
    /\ CreateEnded =>
          /\ propagated = "none"
          /\ backend # "unset"
          /\ rings_exception # "none" => backend = "AerSimulator"
    /\ InitializeUsable

\* C30 amended: create_rings_backend propagates no exception that derives
\* from Exception and returns the Aer simulator after one; an exception that
\* derives from BaseException only (KeyboardInterrupt, SystemExit) raised in
\* its try block leaves it, and the bare except of
\* initialize_quantum_backend catches that one, so initialize_quantum_backend
\* always returns a usable back end, never raises, and reports a real one
\* only when the connection succeeded.
C30_PropagatesBaseExceptionsOnly ==
    /\ (CreateEnded /\ rings_pc = "returned") =>
          /\ propagated # "none" <=> rings_exception \in BaseExceptionsOnly
          /\ propagated = "none" => backend # "unset"
          /\ rings_exception \in Exceptions => backend = "AerSimulator"
          /\ rings_exception = "none" => Connected
    /\ InitializeUsable

C30_Witness ==
    /\ rings_pc = "done"
    /\ rings_exception = "KeyboardInterrupt"
    /\ backend = "unset"
    /\ initialized = "AerSimulator"
    /\ token = "token"
====
